---- MODULE Spec2Model ----
(***************************************************************************)
(* A model of createSimulation (src/src/index.js): the runner's frame      *)
(* loop, the tick handler (bottle consumption, loop invocation, force      *)
(* application), the control setters and the sensor geometry.              *)
(*                                                                         *)
(* Units.  Angles are held in degrees: the value d of boat.angle stands    *)
(* for d * PI / 180 rad, so (angle * 180) / Math.PI is d.  Commands        *)
(* (velocity, rudder) are held in tenths, MAX_FORCE in thousandths, so a   *)
(* main force is in units of 1e-4 and a side force in units of 1e-6.       *)
(* Positions are pixels; a geo coordinate is held in millionths of a       *)
(* degree.  A JavaScript number is a record [nan, val]:                    *)
(* NaN is a number that every comparison answers false for.                *)
(***************************************************************************)
EXTENDS Integers, Sequences, FiniteSets, TLC

VARIABLES
  loop,             \* typeof of the injected loop
  numberOfBottles,  \* createSimulation parameter
  detectorAngle,    \* createSimulation parameter, degrees
  detectorRange,    \* createSimulation parameter, pixels
  boat,             \* [x, y, angle]: boat.position and boat.angle
  bottlePos,        \* bottle id -> [x, y]: bottle.position
  bottles,          \* the bottles array: a sequence of bottle ids
  world,            \* the bottle bodies held by the world
  weight,           \* the collected weight
  velocity,         \* the stored velocity command
  rudder,           \* the stored rudder command
  pending,          \* the animation frame requests not yet run or cancelled
  frameRequestId,   \* runner.frameRequestId: the latest request
  started,          \* whether the last of start() / stop() was start()
  pc,               \* "idle", or "loop" while the tick handler is inside loop()
  tick,             \* what the current or last tick did
  heading,          \* the last result of position.getHeading()
  topLeftGeoPointMap,       \* geo-coordinate variant: createSimulation parameter
  bottomRightGeoPointMap,   \* geo-coordinate variant: createSimulation parameter
  located           \* geo-coordinate variant: the last result of getPosition()

vars == <<loop, numberOfBottles, detectorAngle, detectorRange, boat, bottlePos,
          bottles, world, weight, velocity, rudder, pending, frameRequestId,
          started, pc, tick, heading, topLeftGeoPointMap,
          bottomRightGeoPointMap, located>>

config == <<loop, numberOfBottles, detectorAngle, detectorRange, bottlePos,
            topLeftGeoPointMap, bottomRightGeoPointMap>>

----------------------------------------------------------------------------
(* JavaScript numbers *)

Num(v) == [nan |-> FALSE, val |-> v]
NaN == [nan |-> TRUE, val |-> 0]

NumLt(a, b) == ~a.nan /\ ~b.nan /\ a.val < b.val
NumGt(a, b) == ~a.nan /\ ~b.nan /\ a.val > b.val
NumMul(a, b) == IF a.nan \/ b.nan THEN NaN ELSE Num(a.val * b.val)
NumAdd(a, b) == IF a.nan \/ b.nan THEN NaN ELSE Num(a.val + b.val)
NumAbs(a) == IF a.nan THEN NaN ELSE Num(IF a.val < 0 THEN -a.val ELSE a.val)

Abs(n) == IF n < 0 THEN -n ELSE n

\* a % n of JavaScript: the remainder has the sign of the dividend
JsRem(a, n) == IF a >= 0 THEN a % n ELSE -((-a) % n)

----------------------------------------------------------------------------
(* Bounds and input domains *)

MaxBottles == 2     \* numberOfBottles ranges over 0 .. MaxBottles
MaxCalls == 2       \* setter calls one loop invocation makes
MaxChains == 2      \* frame loops alive at once
AngleTurns == 2     \* boat angles range over this many full turns each way

Angles == {15 * k : k \in (-24 * AngleTurns) .. (24 * AngleTurns)}

----------------------------------------------------------------------------
(* Program constants *)

MAX_FORCE == 25     \* 0.025, in thousandths
One == 10           \* 1.0, in tenths: the bound of a command
SideFactor == 8     \* 0.8, in tenths
QuarterTurn == 90   \* Math.PI / 2

----------------------------------------------------------------------------
(* Heading normalisation *)

\* a normalisation without the branch for negative angles
NormalizedNoBranch(degrees) == 360 - degrees

Normalized(degrees) == IF degrees < 0 THEN Abs(degrees) ELSE 360 - degrees

normalizeAngle(angle) ==
  LET degrees == JsRem(angle, 360)
      normalized == Normalized(degrees)
  IN  JsRem(450 - normalized, 360)

getHeading == normalizeAngle(boat.angle)

----------------------------------------------------------------------------
(* Construction parameters and geometry *)

width == 1000
height == 1000
STRETCH == 7
BOAT_SILHOUETTE == <<2, 4, 5, 20, 20, 5, 3, 0>>
DefaultDetectorAngle == 45
DefaultDetectorRange == 80

\* the boat's position after construction
BoatStart ==
  [x |-> width \div 2 - (Len(BOAT_SILHOUETTE) \div 2) * STRETCH,
   y |-> height \div 2]

\* Math.atan2(dy, dx) in degrees for 0 <= dx, 0 <= dy, on the offsets the
\* model's positions have, to the nearest degree (atan2(1, 2) is 26.57
\* degrees, atan2(2, 1) is 63.43)
QuadrantDeg(dx, dy) ==
  CASE dy = 0 -> 0
    [] dx = 0 -> 90
    [] dx = dy -> 45
    [] dx = 2 * dy -> 27
    [] dy = 2 * dx -> 63

Atan2Deg(dy, dx) ==
  LET a == QuadrantDeg(Abs(dx), Abs(dy))
      upper == IF dx >= 0 THEN a ELSE 180 - a
  IN  IF dy >= 0 THEN upper ELSE -upper

\* Vector.angle(vectorA, vectorB)
VectorAngle(a, b) == Atan2Deg(b.y - a.y, b.x - a.x)

\* the square of Vector.magnitude(Vector.sub(a, b))
DistanceSq(a, b) == (a.x - b.x) * (a.x - b.x) + (a.y - b.y) * (a.y - b.y)

\* distance < range and distance < range / 2, for the distance whose square
\* is dsq
WithinRange(dsq, range) == range > 0 /\ dsq < range * range
WithinHalfRange(dsq, range) == range > 0 /\ 4 * dsq < range * range

----------------------------------------------------------------------------
(* The waste detector *)

\* a detector that forgets the boat's own heading
MeasureNoHeading(bt, p) ==
  [angle |-> normalizeAngle(VectorAngle(bt, p)), distanceSq |-> DistanceSq(bt, p)]

Measure(bt, p) ==
  LET wasteAngle == normalizeAngle(VectorAngle(bt, p))
      boatAngle == normalizeAngle(bt.angle)
  IN  [angle |-> wasteAngle - boatAngle, distanceSq |-> DistanceSq(bt, p)]

InCone(angle, limit) == Abs(angle) < limit

Detected(m) ==
  WithinRange(m.distanceSq, detectorRange) /\ InCone(m.angle, detectorAngle)

\* a proximity that counts half the range itself as near
ProximityHalfClosed(dsq, range) == IF 4 * dsq <= range * range THEN 0 ELSE 1

ProximityOf(dsq, range) == IF WithinHalfRange(dsq, range) THEN 0 ELSE 1

Report(m) ==
  [direction |-> m.angle, proximity |-> ProximityOf(m.distanceSq, detectorRange)]

DetectedWaste(bs, bt) ==
  LET measured == [i \in 1 .. Len(bs) |-> Measure(bt, bottlePos[bs[i]])]
      kept == SelectSeq(measured, Detected)
  IN  [i \in 1 .. Len(kept) |-> Report(kept[i])]

getDetectedWaste == DetectedWaste(bottles, boat)

getWeight == weight

----------------------------------------------------------------------------
(* The control setters *)

\* value < -1.0 || value > 1.0
Invalid(value) == NumLt(value, Num(-One)) \/ NumGt(value, Num(One))

\* the values a loop passes to a setter: each bound, just outside each
\* bound, inside, and what is no number
CommandInputs ==
  {Num(-One - 1), Num(-One), Num(0), Num(One \div 2), Num(One), Num(One + 1), NaN}

\* a loop that only ever asks for full power or too much
PlainInputs == {Num(One), Num(One + 1)}

----------------------------------------------------------------------------
(* Force application: the two Body.applyForce calls of a tick.  A force    *)
(* {x: cos(dir) * mag, y: sin(dir) * mag} is held as [mag, dir].           *)

ApplyForces(v, r, angle) ==
  LET dir == NumAdd(Num(angle), IF r.nan THEN NaN ELSE Num((QuarterTurn * r.val) \div One))
      force == NumMul(Num(MAX_FORCE), v)
      sideDir == angle + (IF NumLt(r, Num(0)) THEN 1 ELSE -1) * QuarterTurn
      side == NumMul(NumMul(force, Num(SideFactor)), NumAbs(r))
  IN  <<[mag |-> force, dir |-> dir], [mag |-> side, dir |-> Num(sideDir)]>>

----------------------------------------------------------------------------
(* The tick handler *)

LoopArgument == {"control", "position", "map", "detector", "container"}

\* a handler that applies the forces before it calls loop
HandlerStepsForceFirst == <<"consume", "force", "loop">>

\* the handler's steps, in the order of the code
HandlerSteps == <<"consume", "loop", "force">>

\* a handler that calls loop without looking at its type
LoopCallableAlways(l) == TRUE

\* typeof loop === 'function'
LoopCallable(l) == l = "function"

NoTick ==
  [status |-> "none", steps |-> <<>>, hits |-> {}, calls |-> 0, arg |-> {},
   seenWeight |-> 0, seenWaste |-> <<>>, sets |-> 0, wrote |-> {}, at |-> 0,
   forces |-> <<>>, whileStarted |-> FALSE]

\* a filter callback that counts a colliding bottle and keeps it in the list
ConsumeKeepsBottle(st) ==
  LET collided == {b \in st.hits : \E i \in 1 .. Len(st.bottles) : st.bottles[i] = b}
  IN  [st EXCEPT !.weight = st.weight + Cardinality(collided),
                 !.world = st.world \ collided,
                 !.steps = Append(st.steps, "consume")]

\* bottles.filter: a bottle that collides adds 1 to weight, leaves the world
\* and is dropped from the list
Consume(st) ==
  LET collided == {b \in st.hits : \E i \in 1 .. Len(st.bottles) : st.bottles[i] = b}
  IN  [st EXCEPT !.bottles = SelectSeq(st.bottles, LAMBDA b : b \notin st.hits),
                 !.weight = st.weight + Cardinality(collided),
                 !.world = st.world \ collided,
                 !.steps = Append(st.steps, "consume")]

Force(st) ==
  [st EXCEPT !.forces = ApplyForces(velocity, rudder, boat.angle),
             !.steps = Append(st.steps, "force")]

EnterLoop(st, i) ==
  [st EXCEPT !.pc = "loop", !.at = i, !.calls = st.calls + 1,
             !.arg = LoopArgument,
             !.seenWeight = st.weight,
             !.seenWaste = DetectedWaste(st.bottles, boat),
             !.steps = Append(st.steps, "loop")]

RECURSIVE RunFrom(_, _)
RunFrom(i, st) ==
  IF i > Len(HandlerSteps)
  THEN [st EXCEPT !.pc = "idle", !.status = "completed"]
  ELSE CASE HandlerSteps[i] = "consume" -> RunFrom(i + 1, Consume(st))
         [] HandlerSteps[i] = "force" -> RunFrom(i + 1, Force(st))
         [] HandlerSteps[i] = "loop" ->
              IF ~LoopCallable(loop) THEN RunFrom(i + 1, st)
              ELSE IF loop = "function" THEN EnterLoop(st, i)
              ELSE \* calling what is no function throws a TypeError
                   [st EXCEPT !.pc = "idle", !.status = "thrown"]

\* the handler's working state: the closure variables it writes, and the
\* record of this tick
Working(t) ==
  [bottles |-> bottles, weight |-> weight, world |-> world, pc |-> pc,
   status |-> t.status, steps |-> t.steps, hits |-> t.hits, calls |-> t.calls,
   arg |-> t.arg, seenWeight |-> t.seenWeight, seenWaste |-> t.seenWaste,
   sets |-> t.sets, wrote |-> t.wrote, at |-> t.at, forces |-> t.forces,
   whileStarted |-> t.whileStarted]

Settle(st) ==
  /\ bottles' = st.bottles
  /\ weight' = st.weight
  /\ world' = st.world
  /\ pc' = st.pc
  /\ tick' = [status |-> st.status, steps |-> st.steps, hits |-> st.hits,
              calls |-> st.calls, arg |-> st.arg, seenWeight |-> st.seenWeight,
              seenWaste |-> st.seenWaste, sets |-> st.sets,
              wrote |-> st.wrote, at |-> st.at,
              forces |-> st.forces, whileStarted |-> st.whileStarted]

\* Events.on(runner, 'tick', ...): the handler up to its return, or up to
\* the call of loop.  hits are the bottles SAT.collides reports.
TickHandler(hits) ==
  Settle(RunFrom(1, Working([NoTick EXCEPT !.status = "running", !.hits = hits,
                                            !.whileStarted = started])))

\* loop returns: the handler runs on to its end
LoopReturn ==
  /\ pc = "loop"
  /\ Settle(RunFrom(tick.at + 1, Working(tick)))
  /\ UNCHANGED <<config, boat, velocity, rudder, pending, frameRequestId,
                 started, heading, located>>

\* what a setter call leaves in the stored command
Store(old, value) == IF Invalid(value) THEN old ELSE value

\* a setter call inside loop; a throw the loop does not catch ends the tick
SetterCall(name, value, caught) ==
  /\ pc = "loop"
  /\ tick.sets < MaxCalls
  /\ IF Invalid(value)
     THEN IF caught
          THEN pc' = pc /\ tick' = [tick EXCEPT !.sets = @ + 1]
          ELSE pc' = "idle" /\ tick' = [tick EXCEPT !.status = "thrown", !.sets = @ + 1]
     ELSE pc' = pc /\ tick' = [tick EXCEPT !.sets = @ + 1, !.wrote = @ \cup {name}]

setVelocity(value, caught) ==
  /\ SetterCall("velocity", value, caught)
  /\ velocity' = Store(velocity, value)
  /\ UNCHANGED <<config, boat, bottles, world, weight, rudder, pending,
                 frameRequestId, started, heading, located>>

setRudder(value, caught) ==
  /\ SetterCall("rudder", value, caught)
  /\ rudder' = Store(rudder, value)
  /\ UNCHANGED <<config, boat, bottles, world, weight, velocity, pending,
                 frameRequestId, started, heading, located>>

----------------------------------------------------------------------------
(* The runner.  Runner.start is Runner.run: it requests an animation frame *)
(* whose callback requests the next one and then ticks; each request's id  *)
(* is written to runner.frameRequestId.  Runner.stop cancels the request   *)
(* runner.frameRequestId names.                                            *)

\* the id of a new request.  An id is free again once its request has run or
\* was cancelled; runner.frameRequestId is overwritten by every new request,
\* so it never names a reused id by accident.
NewRequest(p) ==
  CHOOSE id \in 1 .. MaxChains :
    id \notin p /\ \A j \in 1 .. MaxChains : j \notin p => id <= j

start ==
  /\ pc = "idle"
  /\ Cardinality(pending) < MaxChains
  /\ LET id == NewRequest(pending)
     IN  pending' = pending \cup {id} /\ frameRequestId' = id
  /\ started' = TRUE
  /\ UNCHANGED <<config, boat, bottles, world, weight, velocity, rudder, pc,
                 tick, heading, located>>

stop ==
  /\ pc = "idle"
  /\ pending' = pending \ {frameRequestId}
  /\ started' = FALSE
  /\ UNCHANGED <<config, boat, bottles, world, weight, velocity, rudder,
                 frameRequestId, pc, tick, heading, located>>

\* an animation frame: the callback of request id
Frame(id) ==
  /\ pc = "idle"
  /\ id \in pending
  /\ LET next == NewRequest(pending \ {id})
     IN  pending' = (pending \ {id}) \cup {next} /\ frameRequestId' = next
  /\ \E hits \in SUBSET {bottles[i] : i \in 1 .. Len(bottles)} : TickHandler(hits)
  /\ UNCHANGED <<config, boat, velocity, rudder, started, heading, located>>

\* Engine.run(engine): the physics moves the boat; the bottles float where
\* they were created (the default wind is zero)
EngineUpdate(poses) ==
  /\ pc = "idle"
  /\ boat' \in poses
  /\ UNCHANGED <<config, bottles, world, weight, velocity, rudder, pending,
                 frameRequestId, started, pc, tick, heading, located>>

----------------------------------------------------------------------------
(* The geo-coordinate variant's parameters, in millionths of a degree *)

multiplier == 1000000

DefaultTopLeft ==
  [longitude |-> 52 * multiplier + 440704, latitude |-> 13 * multiplier + 627919]
DefaultBottomRight ==
  [longitude |-> 52 * multiplier + 441704, latitude |-> 13 * multiplier + 626919]

\* (degrees * multiplier) of a difference held in millionths of a degree
geoWidth == topLeftGeoPointMap.latitude - bottomRightGeoPointMap.latitude
geoHeight == bottomRightGeoPointMap.longitude - topLeftGeoPointMap.longitude

GeoSilhouette == <<20, 20>>
GeoStretch == 60
WallThickness == 10
FenceInset == 10

\* where Bodies.fromVertices is asked to put the boat
GeoBoatStart(w, h) ==
  [x |-> w \div 2 - (Len(GeoSilhouette) \div 2) * GeoStretch, y |-> h \div 2]

\* x / multiplier degrees is x millionths of a degree
getPosition ==
  [longitude |-> boat.x + topLeftGeoPointMap.longitude,
   latitude  |-> boat.y + bottomRightGeoPointMap.latitude]

getFence ==
  <<[longitude |-> topLeftGeoPointMap.longitude + FenceInset,
     latitude  |-> bottomRightGeoPointMap.latitude + FenceInset],
    [longitude |-> bottomRightGeoPointMap.longitude - FenceInset,
     latitude  |-> topLeftGeoPointMap.latitude - FenceInset]>>

\* no getPosition() call yet
NoFix == [taken |-> FALSE, x |-> 0, y |-> 0, longitude |-> 0, latitude |-> 0]

----------------------------------------------------------------------------
(* The simulation *)

InitWith(loops, counts, spots, detectorAngles, detectorRanges) ==
  /\ loop \in loops
  /\ numberOfBottles \in counts
  /\ detectorAngle \in detectorAngles
  /\ detectorRange \in detectorRanges
  /\ boat = [x |-> BoatStart.x, y |-> BoatStart.y, angle |-> 0]
  /\ bottlePos \in [1 .. numberOfBottles -> spots]
  /\ bottles = [i \in 1 .. numberOfBottles |-> i]
  /\ world = 1 .. numberOfBottles
  /\ weight = 0
  /\ velocity = Num(0)
  /\ rudder = Num(0)
  /\ pending = {}
  /\ frameRequestId = 0
  /\ started = FALSE
  /\ pc = "idle"
  /\ tick = NoTick
  /\ heading = [of |-> 0, value |-> normalizeAngle(0)]
  /\ topLeftGeoPointMap = DefaultTopLeft
  /\ bottomRightGeoPointMap = DefaultBottomRight
  /\ located = NoFix

Pose(p, a) == [x |-> p.x, y |-> p.y, angle |-> a]
At(dx, dy) == [x |-> BoatStart.x + dx, y |-> BoatStart.y + dy]

MainSpots == {At(20, 0)}
MainPoses == {Pose(BoatStart, 0), Pose(BoatStart, 135)}

Init ==
  InitWith({"function", "undefined"}, 0 .. MaxBottles, MainSpots,
           {DefaultDetectorAngle},
           {DefaultDetectorRange})

Next ==
  \/ start
  \/ stop
  \/ \E id \in pending : Frame(id)
  \/ \E value \in PlainInputs, caught \in BOOLEAN : setVelocity(value, caught)
  \/ \E value \in PlainInputs, caught \in BOOLEAN : setRudder(value, caught)
  \/ LoopReturn
  \/ EngineUpdate(MainPoses)

Spec == Init /\ [][Next]_vars

----------------------------------------------------------------------------
(* The control loop over every kind of command, the simulation started     *)
(* once.                                                                   *)

ControlInit ==
  InitWith({"function"}, {1}, MainSpots, {DefaultDetectorAngle},
           {DefaultDetectorRange})

ControlNext ==
  \/ pending = {} /\ start
  \/ \E id \in pending : Frame(id)
  \/ \E value \in CommandInputs, caught \in BOOLEAN : setVelocity(value, caught)
  \/ \E value \in CommandInputs, caught \in BOOLEAN : setRudder(value, caught)
  \/ LoopReturn
  \/ EngineUpdate(MainPoses)

ControlSpec == ControlInit /\ [][ControlNext]_vars

----------------------------------------------------------------------------
(* The detector over a wider geometry: every lattice offset between boat   *)
(* and bottle, both detector parameters varied.                            *)

DetectorSpots == {At(20, 0), At(20, 20), At(20, -20), At(80, 0)}
DetectorPoses == {Pose(p, a) : p \in {At(0, 0), At(-20, 0)}, a \in {0, -90, 135}}

DetectorInit ==
  InitWith({"function"}, 0 .. MaxBottles, DetectorSpots,
           {DefaultDetectorAngle, 2 * DefaultDetectorAngle},
           {DefaultDetectorRange, DefaultDetectorRange \div 2})

DetectorNext ==
  \/ pending = {} /\ start
  \/ \E id \in pending : Frame(id)
  \/ LoopReturn
  \/ EngineUpdate(DetectorPoses)

DetectorSpec == DetectorInit /\ [][DetectorNext]_vars

----------------------------------------------------------------------------
(* The detector around north: the boat heads north (heading 0), east or    *)
(* west, with bottles to the north-west and north-east of it.              *)

WrapSpots == {At(-20, -20), At(20, -20)}
WrapPoses == {Pose(At(0, 0), a) : a \in {-90, 0, 180}}

WrapInit ==
  InitWith({"function"}, 0 .. MaxBottles, WrapSpots,
           {DefaultDetectorAngle, 2 * DefaultDetectorAngle},
           {DefaultDetectorRange})

WrapNext ==
  \/ pending = {} /\ start
  \/ \E id \in pending : Frame(id)
  \/ LoopReturn
  \/ EngineUpdate(WrapPoses)

WrapSpec == WrapInit /\ [][WrapNext]_vars

----------------------------------------------------------------------------
(* position.getHeading() over the boat's angles *)

Turn(a) ==
  /\ boat' = [boat EXCEPT !.angle = a]
  /\ UNCHANGED <<config, bottles, world, weight, velocity, rudder, pending,
                 frameRequestId, started, pc, tick, heading, located>>

GetHeading ==
  /\ heading' = [of |-> boat.angle, value |-> getHeading]
  /\ UNCHANGED <<config, boat, bottles, world, weight, velocity, rudder,
                 pending, frameRequestId, started, pc, tick, located>>

HeadingInit ==
  InitWith({"function"}, {0}, {}, {DefaultDetectorAngle}, {DefaultDetectorRange})

HeadingNext ==
  \/ \E a \in Angles : Turn(a)
  \/ GetHeading

HeadingSpec == HeadingInit /\ [][HeadingNext]_vars

\* side lengths of the maps tried, in millionths of a degree
GeoExtents == {200, 1000}

\* top-left corners tried: the default and one moved north-west of it
GeoCorners ==
  {DefaultTopLeft,
   [longitude |-> DefaultTopLeft.longitude - 300,
    latitude  |-> DefaultTopLeft.latitude + 700]}

\* boat positions the pool walls allow, the extremes included
GeoPoses ==
  {Pose([x |-> x, y |-> y], 0) :
     x \in {WallThickness, geoWidth \div 2, geoWidth - WallThickness},
     y \in {WallThickness, geoHeight \div 2, geoHeight - WallThickness}}

GetPosition ==
  /\ located' = [taken |-> TRUE, x |-> boat.x, y |-> boat.y,
                 longitude |-> getPosition.longitude,
                 latitude |-> getPosition.latitude]
  /\ UNCHANGED <<config, boat, bottles, world, weight, velocity, rudder,
                 pending, frameRequestId, started, pc, tick, heading>>

GeoInit ==
  /\ loop = "function"
  /\ numberOfBottles = 0
  /\ detectorAngle = DefaultDetectorAngle
  /\ detectorRange = DefaultDetectorRange
  /\ topLeftGeoPointMap \in GeoCorners
  /\ \E w \in GeoExtents, h \in GeoExtents :
       bottomRightGeoPointMap =
         [longitude |-> topLeftGeoPointMap.longitude + h,
          latitude  |-> topLeftGeoPointMap.latitude - w]
  /\ boat = Pose(GeoBoatStart(geoWidth, geoHeight), 0)
  /\ bottlePos = <<>>
  /\ bottles = <<>>
  /\ world = {}
  /\ weight = 0
  /\ velocity = Num(0)
  /\ rudder = Num(0)
  /\ pending = {}
  /\ frameRequestId = 0
  /\ started = FALSE
  /\ pc = "idle"
  /\ tick = NoTick
  /\ heading = [of |-> 0, value |-> normalizeAngle(0)]
  /\ located = NoFix

GeoNext ==
  \/ EngineUpdate(GeoPoses)
  \/ GetPosition

GeoSpec == GeoInit /\ [][GeoNext]_vars

----------------------------------------------------------------------------
(* Properties *)

Ticked == tick.status # "none"

BottleSet == {bottles[i] : i \in 1 .. Len(bottles)}

\* C1: on every tick the loop is invoked exactly once, with an object
\* holding control, position, map, detector and container; when loop is no
\* function the tick invokes nothing and still completes: consumption and
\* force application run, and nothing is thrown.
C1_LoopOncePerTick ==
  Ticked =>
    IF loop = "function"
    THEN /\ tick.calls = 1
         /\ tick.arg = LoopArgument
    ELSE /\ tick.calls = 0
         /\ tick.arg = {}
         /\ tick.status = "completed"
         /\ tick.steps = <<"consume", "force">>
         /\ Len(tick.forces) = 2

C1_Witness ==
  /\ loop # "function"
  /\ tick.status = "completed"
  /\ tick.hits # {}

\* every bottle is either in the list and the world, or counted in the weight
C2_Conserved ==
  /\ weight + Len(bottles) = numberOfBottles
  /\ Cardinality(BottleSet) = Len(bottles)
  /\ world = BottleSet
  /\ BottleSet \subseteq 1 .. numberOfBottles

\* a step that starts a tick consumes exactly the colliding bottles; no other
\* step touches the bottles or the weight
C2_TickAccounting ==
  IF pc = "idle" /\ tick' # tick
  THEN /\ tick'.hits \subseteq BottleSet
       /\ BottleSet' = BottleSet \ tick'.hits
       /\ world' = world \ tick'.hits
       /\ weight' = weight + Cardinality(tick'.hits)
  ELSE /\ bottles' = bottles
       /\ world' = world
       /\ weight' = weight

\* C2: a tick removes every bottle that collides from the world and from the
\* list and adds exactly 1 to the weight for each, and keeps every other
\* bottle; so the weight plus the number of bottles left is numberOfBottles
\* in every state, the weight never decreases and no bottle is counted
\* twice.
C2_BottleConsumption == [] C2_Conserved /\ [][C2_TickAccounting]_vars

C2_Witness ==
  /\ weight = 1
  /\ Len(bottles) = 1
  /\ tick.hits # {}

InRange(c) == ~c.nan /\ -One <= c.val /\ c.val <= One

\* C3: a setter throws for every value below -1.0 or above 1.0 and leaves
\* the stored command as it was, and stores every value in [-1, 1]; so
\* after any sequence of setter calls the stored velocity and the stored
\* rudder are in [-1, 1].
C3_CommandsInRange == InRange(velocity) /\ InRange(rudder)

\* a force {x, y} none of whose components is NaN, and one that is zero
FiniteForce(f) == ~f.mag.nan /\ ~f.dir.nan
ZeroForce(f) == FiniteForce(f) /\ f.mag.val = 0

\* C7: the force a tick applies is MAX_FORCE times the stored velocity
\* command: no force when the velocity is 0, whatever the rudder; the side
\* force is 0.8 |rudder| times that force and none when the rudder is 0; the
\* main force never exceeds MAX_FORCE.
C7_ForceFromCommand ==
  tick.status = "completed" =>
    LET main == tick.forces[1]
        side == tick.forces[2]
    IN  /\ FiniteForce(main) /\ FiniteForce(side)
        /\ main.mag.val = MAX_FORCE * velocity.val
        /\ Abs(main.mag.val) <= MAX_FORCE * One
        /\ side.mag.val = main.mag.val * SideFactor * Abs(rudder.val)
        /\ (velocity = Num(0) => ZeroForce(main) /\ ZeroForce(side))
        /\ (rudder = Num(0) => ZeroForce(side))

\* what loop sees, and what a completed tick applied
C8_Order ==
  /\ ~Ticked => velocity = Num(0) /\ rudder = Num(0)
  /\ pc = "loop" =>
       /\ tick.steps = <<"consume", "loop">>
       /\ tick.hits \cap BottleSet = {}
       /\ tick.seenWeight = numberOfBottles - Len(bottles)
       /\ tick.seenWaste = getDetectedWaste
       /\ tick.forces = <<>>
  /\ tick.status = "completed" =>
       /\ tick.steps = <<"consume", "loop", "force">>
       /\ tick.forces[1].mag = NumMul(Num(MAX_FORCE), velocity)
       /\ tick.forces[2].mag =
            NumMul(NumMul(tick.forces[1].mag, Num(SideFactor)), NumAbs(rudder))

\* a stored command changes only by a successful set inside loop
C8_CommandsStay ==
  /\ velocity' # velocity =>
       pc = "loop" /\ ~Invalid(velocity') /\ "velocity" \in tick'.wrote
  /\ rudder' # rudder =>
       pc = "loop" /\ ~Invalid(rudder') /\ "rudder" \in tick'.wrote

\* C8: a tick runs (1) bottle consumption, (2) loop, (3) force application:
\* loop sees the weight and the detector's list as they are after this
\* tick's consumption, and the forces of a tick come from the commands as
\* loop left them in that tick; a command stays until a later successful
\* set, and is 0 before the first.
C8_TickOrder == [] C8_Order /\ [][C8_CommandsStay]_vars

C8_Witness ==
  /\ tick.status = "completed"
  /\ tick.hits # {}
  /\ tick.seenWeight = 1
  /\ tick.wrote = {"velocity", "rudder"}
  /\ velocity = Num(One)
  /\ tick.forces[1].mag = Num(MAX_FORCE * One)

\* C9: the loop is invoked, bottles are consumed and forces are applied only
\* while the simulation is started: no tick runs before the first start()
\* or between a stop() and the next start().
C9_OnlyWhileStarted == Ticked => tick.whileStarted

----------------------------------------------------------------------------
(* The detector's properties *)

\* the bearing of bottle b: the compass heading from the boat to the bottle
\* less the boat's compass heading
Bearing(b) ==
  ((VectorAngle(boat, bottlePos[b]) + 90) % 360) - ((boat.angle + 90) % 360)

Near(b) ==
  DistanceSq(boat, bottlePos[b]) < detectorRange * detectorRange

InSight(b) == Near(b) /\ Abs(Bearing(b)) < detectorAngle

\* the bottles still in the pool that are in sight, in the order of creation
Sighted ==
  SelectSeq([i \in 1 .. numberOfBottles |-> i],
            LAMBDA b : b \in world /\ InSight(b))

C5_BoundsIncluded ==
  pc = "loop" =>
    \A b \in world :
      Near(b) /\ Abs(Bearing(b)) = detectorAngle =>
        \E i \in 1 .. Len(tick.seenWaste) :
          tick.seenWaste[i].direction = Bearing(b)

\* C10: an entry's proximity is 0 when the bottle is nearer than
\* detectorRange / 2 and 1 otherwise; no other proximity is reported.
C10_Proximity ==
  /\ Len(getDetectedWaste) = Len(Sighted)
  /\ \A i \in 1 .. Len(Sighted) :
       /\ getDetectedWaste[i].proximity \in {0, 1}
       /\ getDetectedWaste[i].proximity = 0 <=>
            4 * DistanceSq(boat, bottlePos[Sighted[i]]) < detectorRange * detectorRange

C10_Witness ==
  /\ pc = "loop"
  /\ Len(tick.seenWaste) = 2
  /\ tick.seenWaste[1].proximity = 1
  /\ 4 * DistanceSq(boat, bottlePos[Sighted[1]]) = detectorRange * detectorRange
  /\ tick.seenWaste[2].proximity = 1
  /\ 4 * DistanceSq(boat, bottlePos[Sighted[2]]) > detectorRange * detectorRange

\* the smallest angular offset of bottle b from the boat's heading, taken
\* modulo 360: in -179 .. 180
Offset(b) ==
  LET d == Bearing(b) % 360
  IN  IF d > 180 THEN d - 360 ELSE d

\* C11: for every heading and bottle position, a bottle in range whose
\* smallest angular offset from the boat's heading, modulo 360, is less than
\* detectorAngle is reported, also when heading and bearing lie on opposite
\* sides of the 0/360 wrap.
C11_AcrossTheWrap ==
  pc = "loop" =>
    \A b \in world :
      Near(b) /\ Abs(Offset(b)) < detectorAngle =>
        \E i \in 1 .. Len(tick.seenWaste) :
          tick.seenWaste[i].direction % 360 = Bearing(b) % 360

----------------------------------------------------------------------------
(* The heading's properties *)

Between(v, a, b) ==
  /\ (IF a < b THEN a ELSE b) <= v
  /\ v <= (IF a < b THEN b ELSE a)

InsideWalls ==
  /\ located.taken
  /\ WallThickness <= located.x /\ located.x <= geoWidth - WallThickness
  /\ WallThickness <= located.y /\ located.y <= geoHeight - WallThickness

\* C12: in the geo-coordinate variant, for every pair of corner points and
\* every boat position inside the pool walls, the point that getPosition()
\* returned lies inside the rectangle spanned by the two points of
\* getFence(), in longitude and in latitude.
C12_InsideFence ==
  InsideWalls =>
    /\ Between(located.longitude, getFence[1].longitude, getFence[2].longitude)
    /\ Between(located.latitude, getFence[1].latitude, getFence[2].latitude)

\* the same, asked only of maps as wide as they are high
C12_SquareMap ==
  InsideWalls /\ geoWidth = geoHeight =>
    /\ Between(located.longitude, getFence[1].longitude, getFence[2].longitude)
    /\ Between(located.latitude, getFence[1].latitude, getFence[2].latitude)

\* C6: getHeading() is (450 - normalize(d)) mod 360 for the boat's angle d in
\* degrees, normalize(d) being |d mod 360| for negative d and
\* 360 - (d mod 360) otherwise; it lies in [0, 360), is (d + 90) mod 360, and
\* does not change when the angle is shifted by a whole turn.
C6_Heading ==
  LET d == heading.of
      h == heading.value
      normalize == IF d < 0 THEN Abs(JsRem(d, 360)) ELSE 360 - JsRem(d, 360)
  IN  /\ h = (450 - normalize) % 360
      /\ h \in 0 .. 359
      /\ h = (d + 90) % 360
      /\ normalizeAngle(d + 360) = h
      /\ normalizeAngle(d - 360) = h

C6_Witness == heading.of = -495 /\ heading.value = 315

====
